---- MODULE Spec2Model ----
(***************************************************************************)
(* Model of static/js/main.js: the chat widget controller.                 *)
(*                                                                         *)
(* The state is the part of the DOM the script reads and writes (the       *)
(* message log, the question input, the send and reload buttons, the       *)
(* stats display, whether the input has the focus), the fetches whose      *)
(* promise chain has not settled, and the clock Date.now() reads.  Every   *)
(* action is one event-loop task: a user event with the handler it         *)
(* triggers, or the settling of one fetch with the then/catch handlers     *)
(* that run on it.  Texts are sequences of tokens; a token is either one   *)
(* character ("a", " ", "\n") or a fixed piece of text of the script       *)
(* (written without its accents).                                          *)
(***************************************************************************)
EXTENDS Integers, Sequences, FiniteSets, TLC

\* Bounds of the model.
MaxOps == 2      \* questions and reloads submitted per page load
MaxLiveOps == 1  \* the same, in the behaviours checked for liveness
MaxTextLen == 3  \* tokens of a text whose rendering alone is examined

VARIABLES
    chatMessages,   \* #chat-messages: the sequence of rendered entries
    questionInput,  \* #question-input: [value, disabled]
    sendBtn,        \* #send-btn: [disabled]
    reloadBtn,      \* #reload-btn: [disabled, textContent]
    statsDiv,       \* #stats: [textContent]
    inputFocused,   \* document.activeElement === questionInput
    requests,       \* fetches in flight, each with what its handlers close over
    now,            \* the last value Date.now() returned
    issued,         \* number of fetches issued so far (names the requests)
    ops,            \* history: per issued fetch, its kind and how it ended
    enables,        \* history: executions of the re-enabling statements
    returnedEarly,  \* history: the last call of sendQuestion returned at once
    text            \* the text given to addMessage when the rendering alone
                    \* is examined (RenderSpec); empty otherwise

vars == <<chatMessages, questionInput, sendBtn, reloadBtn, statsDiv,
          inputFocused, requests, now, issued, ops, enables, returnedEarly,
          text>>

-----------------------------------------------------------------------------
\* Texts

Whitespace == {" ", "\n"}

LoadingText == <<"Recherche en cours...">>
ReloadStartText == <<"Rechargement de la documentation en cours...">>
ReloadFailText == <<"Erreur lors du rechargement de la documentation.">>
ReloadConnText == <<"Erreur de connexion lors du rechargement.">>
AskConnText == <<"Erreur de connexion. Veuillez reessayer.">>
UnknownProblem == <<"Probleme inconnu">>
StatsFailText == <<"Erreur lors du chargement des statistiques">>
StatsConnText == <<"Erreur de connexion">>
ReloadLabel == "Recharger la documentation"
ReloadBusyLabel == "Chargement en cours..."

\* What the user can have typed in the input.
Inputs == { <<>>, <<" ">>, <<" ", "a", " ">> }

\* String.prototype.trim
RECURSIVE TrimLeft(_)
TrimLeft(s) ==
    IF s # <<>> /\ Head(s) \in Whitespace THEN TrimLeft(Tail(s)) ELSE s

RECURSIVE TrimRight(_)
TrimRight(s) ==
    IF s # <<>> /\ s[Len(s)] \in Whitespace
    THEN TrimRight(SubSeq(s, 1, Len(s) - 1))
    ELSE s

trim(s) == TrimRight(TrimLeft(s))

\* Faulty variant of replaceNewlines: content.replace('\n', '<br>'), which
\* replaces the first newline only.
replaceNewlines_FirstOnly(s) ==
    [i \in 1..Len(s) |->
        IF s[i] = "\n" /\ (\A j \in 1..(i - 1) : s[j] # "\n") THEN "<br>" ELSE s[i]]

\* content.replace(/\n/g, '<br>')
replaceNewlines(s) == [i \in 1..Len(s) |-> IF s[i] = "\n" THEN "<br>" ELSE s[i]]

-----------------------------------------------------------------------------
\* JavaScript values of the payload fields

Str(s) == [isStr |-> TRUE, s |-> s]
Undefined == [isStr |-> FALSE, s |-> <<>>]

\* `${data.sections_count}`
countText(c) == IF c.present THEN ToString(c.n) ELSE "undefined"

statsLine(c) == <<countText(c), " sections de documentation disponibles">>

NoCount == [present |-> FALSE, n |-> 0]
Count(n) == [present |-> TRUE, n |-> n]

\* A parsed response body; isNull is the JSON text "null".
Payload(isNull, success, answer, error, count) ==
    [isNull |-> isNull, success |-> success, answer |-> answer,
     error |-> error, sections_count |-> count]

NoData == Payload(TRUE, FALSE, Undefined, Undefined, NoCount)

Answers == { Str(<<"x", "\n", "y">>), Undefined }
Errors == { Str(<<"e">>), Undefined }
Counts == { Count(1), Count(2) }

AskPayloads ==
    {Payload(FALSE, TRUE, a, Undefined, NoCount) : a \in Answers}
    \cup {Payload(FALSE, FALSE, Undefined, e, NoCount) : e \in Errors}
    \cup {NoData}

ReloadPayloads ==
    {Payload(FALSE, TRUE, Undefined, Undefined, c) : c \in Counts}
    \cup {Payload(FALSE, FALSE, Undefined, Undefined, c) : c \in {Count(1), NoCount}}
    \cup {NoData}

StatsPayloads ==
    {Payload(FALSE, TRUE, Undefined, Undefined, c) : c \in Counts}
    \cup {Payload(FALSE, FALSE, Undefined, Undefined, NoCount), NoData}

-----------------------------------------------------------------------------
\* The DOM as one value, so that handlers compose

Dom == [chatMessages |-> chatMessages, questionInput |-> questionInput,
        sendBtn |-> sendBtn, reloadBtn |-> reloadBtn, statsDiv |-> statsDiv,
        inputFocused |-> inputFocused, enables |-> enables]

SetDom(d) ==
    /\ chatMessages' = d.chatMessages
    /\ questionInput' = d.questionInput
    /\ sendBtn' = d.sendBtn
    /\ reloadBtn' = d.reloadBtn
    /\ statsDiv' = d.statsDiv
    /\ inputFocused' = d.inputFocused
    /\ enables' = d.enables

\* addMessage(type, content, id); id 0 is "no id" (null, or a falsy id).
\* op is history: the request on whose behalf the entry is added.
addMessage(d, type, content, id, op) ==
    [d EXCEPT !.chatMessages =
        Append(@, [kind |-> type, html |-> replaceNewlines(content),
                   id |-> id, op |-> op])]

\* content.replace throws when content is not a string
addMessageThrows(content) == ~content.isStr

\* document.getElementById: the first element in document order with the id
RECURSIVE indexOfId(_, _, _)
indexOfId(msgs, id, i) ==
    IF i > Len(msgs) THEN 0
    ELSE IF msgs[i].id = id THEN i
    ELSE indexOfId(msgs, id, i + 1)

removeAt(s, i) == SubSeq(s, 1, i - 1) \o SubSeq(s, i + 1, Len(s))

\* Faulty variant of removeMessage: the last entry of the log is removed
\* instead of the entry looked up.
removeMessage_RemovesLast(d, id) ==
    IF d.chatMessages # <<>>
    THEN [d EXCEPT !.chatMessages = SubSeq(@, 1, Len(@) - 1)]
    ELSE d

removeMessage(d, id) ==
    LET i == indexOfId(d.chatMessages, id, 1) IN
    IF id # 0 /\ i # 0
    THEN [d EXCEPT !.chatMessages = removeAt(@, i)]
    ELSE d

-----------------------------------------------------------------------------
\* sendQuestion

\* Faulty variant of submits: the test is made on the untrimmed value.
submits_Untrimmed(d) == d.questionInput.value # <<>>

\* const question = questionInput.value.trim(); if (!question) return;
submits(d) == trim(d.questionInput.value) # <<>>

\* Faulty variant of disableQuestionControls: the input is cleared and the
\* two controls are left enabled.
disableQuestionControls_ClearsOnly(d) ==
    [d EXCEPT !.questionInput.value = <<>>]

\* questionInput.value = ''; questionInput.disabled = true; sendBtn.disabled = true;
\* (a disabled input does not keep the focus)
disableQuestionControls(d) ==
    [d EXCEPT !.questionInput = [value |-> <<>>, disabled |-> TRUE],
              !.sendBtn = [disabled |-> TRUE],
              !.inputFocused = FALSE]

\* questionInput.disabled = false; sendBtn.disabled = false; questionInput.focus();
enableQuestionControls(d) ==
    [d EXCEPT !.questionInput.disabled = FALSE,
              !.sendBtn.disabled = FALSE,
              !.inputFocused = TRUE,
              !.enables.question = @ + 1]

\* Faulty variant of sendQuestion: the placeholder is appended before the
\* user entry.
sendQuestion_PlaceholderFirst(d, t, op) ==
    LET question == trim(d.questionInput.value)
        d1 == addMessage(d, "assistant", LoadingText, t, op)
        d2 == disableQuestionControls(d1)
    IN  addMessage(d2, "user", question, 0, op)

\* Faulty variant of sendQuestion: the placeholder is added without its id.
sendQuestion_NoPlaceholderId(d, t, op) ==
    LET question == trim(d.questionInput.value)
        d1 == addMessage(d, "user", question, 0, op)
        d2 == disableQuestionControls(d1)
    IN  addMessage(d2, "assistant", LoadingText, 0, op)

\* The synchronous part of sendQuestion, for a non-empty question, when
\* Date.now() returns t; the fetch it ends with is issued by the action.
sendQuestion(d, t, op) ==
    LET question == trim(d.questionInput.value)
        d1 == addMessage(d, "user", question, 0, op)
        d2 == disableQuestionControls(d1)
    IN  addMessage(d2, "assistant", LoadingText, t, op)

Completed(d) == [threw |-> FALSE, d |-> d]
Threw(d) == [threw |-> TRUE, d |-> d]

\* Faulty variant of errorText: no fallback text.
errorText_NoFallback(data) ==
    IF data.error.isStr THEN data.error.s ELSE <<"undefined">>

\* data.error || 'Probleme inconnu'
errorText(data) ==
    IF data.error.isStr /\ data.error.s # <<>> THEN data.error.s
    ELSE UnknownProblem

\* Faulty variant of askThen: the controls are re-enabled before the
\* response is rendered, so a rendering that throws re-enables them twice.
askThen_EnablesFirst(d, data, loadingMsgId, op) ==
    LET d1 == enableQuestionControls(removeMessage(d, loadingMsgId)) IN
    IF data.isNull THEN Threw(d1)
    ELSE IF data.success
    THEN IF addMessageThrows(data.answer) THEN Threw(d1)
         ELSE Completed(addMessage(d1, "assistant", data.answer.s, 0, op))
    ELSE Completed(addMessage(d1, "system", <<"Erreur: ">> \o errorText(data), 0, op))

\* Faulty variant of askThen: the error branch does not re-enable the controls.
askThen_NoEnableOnError(d, data, loadingMsgId, op) ==
    LET d1 == removeMessage(d, loadingMsgId) IN
    IF data.isNull THEN Threw(d1)
    ELSE IF data.success
    THEN IF addMessageThrows(data.answer) THEN Threw(d1)
         ELSE Completed(enableQuestionControls(
                  addMessage(d1, "assistant", data.answer.s, 0, op)))
    ELSE Completed(addMessage(d1, "system", <<"Erreur: ">> \o errorText(data), 0, op))

\* .then(data => { ... }) of sendQuestion
askThen(d, data, loadingMsgId, op) ==
    LET d1 == removeMessage(d, loadingMsgId) IN
    IF data.isNull THEN Threw(d1)
    ELSE IF data.success
    THEN IF addMessageThrows(data.answer) THEN Threw(d1)
         ELSE Completed(enableQuestionControls(
                  addMessage(d1, "assistant", data.answer.s, 0, op)))
    ELSE Completed(enableQuestionControls(
             addMessage(d1, "system", <<"Erreur: ">> \o errorText(data), 0, op)))

\* Faulty variant of askCatch: the placeholder is not removed.
askCatch_KeepsPlaceholder(d, loadingMsgId, op) ==
    enableQuestionControls(addMessage(d, "system", AskConnText, 0, op))

\* .catch(error => { ... }) of sendQuestion
askCatch(d, loadingMsgId, op) ==
    enableQuestionControls(
        addMessage(removeMessage(d, loadingMsgId), "system", AskConnText, 0, op))

-----------------------------------------------------------------------------
\* reloadDocuments

\* Faulty variant of disableReload: the button is relabelled and left enabled.
disableReload_LabelOnly(d) ==
    [d EXCEPT !.reloadBtn.textContent = ReloadBusyLabel]

\* reloadBtn.disabled = true; reloadBtn.textContent = 'Chargement en cours...';
disableReload(d) ==
    [d EXCEPT !.reloadBtn = [disabled |-> TRUE, textContent |-> ReloadBusyLabel]]

\* reloadBtn.disabled = false; reloadBtn.textContent = 'Recharger la documentation';
enableReload(d) ==
    [d EXCEPT !.reloadBtn = [disabled |-> FALSE, textContent |-> ReloadLabel],
              !.enables.reload = @ + 1]

\* The synchronous part of reloadDocuments.
reloadDocuments(d, op) ==
    addMessage(disableReload(d), "system", ReloadStartText, 0, op)

reloadDoneText(c) ==
    <<"Rechargement termine. ", countText(c), " sections disponibles.">>

\* statsDiv.textContent = `${data.sections_count} sections de documentation disponibles`;
reloadStats(d, data) ==
    [d EXCEPT !.statsDiv.textContent = statsLine(data.sections_count)]

\* Faulty variant of reloadThen: a success:false response adds no message.
reloadThen_SilentFailure(d, data, op) ==
    IF data.isNull THEN Threw(d)
    ELSE LET d1 == IF data.success
                   THEN addMessage(d, "system", reloadDoneText(data.sections_count), 0, op)
                   ELSE d
         IN  Completed(enableReload(reloadStats(d1, data)))

\* .then(data => { ... }) of reloadDocuments
reloadThen(d, data, op) ==
    IF data.isNull THEN Threw(d)
    ELSE LET d1 == IF data.success
                   THEN addMessage(d, "system", reloadDoneText(data.sections_count), 0, op)
                   ELSE addMessage(d, "system", ReloadFailText, 0, op)
         IN  Completed(enableReload(reloadStats(d1, data)))

\* Faulty variant of reloadCatch: the button is not restored.
reloadCatch_StaysDisabled(d, op) ==
    addMessage(d, "system", ReloadConnText, 0, op)

\* Faulty variant of reloadCatch: the stats display is written as in the
\* then handler, with the count of a body that never came.
reloadCatch_WritesStats(d, op) ==
    enableReload(reloadStats(addMessage(d, "system", ReloadConnText, 0, op), NoData))

\* Faulty variant of reloadCatch: it ends as the catch handler of
\* sendQuestion does, re-enabling the input and the send control too.
reloadCatch_EnablesQuestion(d, op) ==
    enableQuestionControls(
        enableReload(addMessage(d, "system", ReloadConnText, 0, op)))

\* .catch(error => { ... }) of reloadDocuments
reloadCatch(d, op) ==
    enableReload(addMessage(d, "system", ReloadConnText, 0, op))

-----------------------------------------------------------------------------
\* loadStats

\* Faulty variant of statsThen: a success:false response shows the text of
\* the connection error.
statsThen_ConnTextOnFailure(d, data) ==
    IF data.isNull THEN Threw(d)
    ELSE IF data.success
    THEN Completed([d EXCEPT !.statsDiv.textContent = statsLine(data.sections_count)])
    ELSE Completed([d EXCEPT !.statsDiv.textContent = StatsConnText])

\* .then(data => { ... }) of loadStats
statsThen(d, data) ==
    IF data.isNull THEN Threw(d)
    ELSE IF data.success
    THEN Completed([d EXCEPT !.statsDiv.textContent = statsLine(data.sections_count)])
    ELSE Completed([d EXCEPT !.statsDiv.textContent = StatsFailText])

\* .catch(error => { ... }) of loadStats
statsCatch(d) == [d EXCEPT !.statsDiv.textContent = StatsConnText]

-----------------------------------------------------------------------------
\* The state machine

\* A fetch whose promise chain has not settled, with the loadingMsgId its
\* handlers close over (0 when they close over none).  statsBefore is
\* history: the stats display when the fetch was issued.
Request(id, kind, loadingMsgId, d) ==
    [id |-> id, kind |-> kind, loadingMsgId |-> loadingMsgId,
     statsBefore |-> d.statsDiv.textContent]

\* History of one fetch: how it ended ("pending", "success", "appfail" for
\* success:false, "threw" for a then handler that threw, "transport"), the
\* sections_count of the body handled, and the number of times its handlers
\* executed the statements that re-enable its controls.
Op(kind) ==
    [kind |-> kind, outcome |-> "pending", count |-> NoCount, enables |-> 0]

\* State after the DOMContentLoaded handler: the references are taken, the
\* listeners are attached and loadStats() has issued its fetch.
Init ==
    /\ chatMessages = <<>>
    /\ questionInput = [value |-> <<>>, disabled |-> FALSE]
    /\ sendBtn = [disabled |-> FALSE]
    /\ reloadBtn = [disabled |-> FALSE, textContent |-> ReloadLabel]
    /\ statsDiv = [textContent |-> <<>>]
    /\ inputFocused = FALSE
    /\ now = 1
    /\ issued = 1
    /\ requests = {Request(1, "stats", 0, [statsDiv |-> [textContent |-> <<>>]])}
    /\ enables = [question |-> 0, reload |-> 0]
    /\ ops = <<Op("stats")>>
    /\ returnedEarly = FALSE
    /\ text = <<>>

\* The user puts the caret in the question input.
FocusInput ==
    /\ ~questionInput.disabled
    /\ ~inputFocused
    /\ inputFocused' = TRUE
    /\ UNCHANGED <<chatMessages, questionInput, sendBtn, reloadBtn, statsDiv,
                   requests, now, issued, ops, enables, returnedEarly,
                   text>>

\* The user edits the text of the question input.
TypeInput(v) ==
    /\ ~questionInput.disabled
    /\ inputFocused
    /\ questionInput.value # v
    /\ questionInput' = [questionInput EXCEPT !.value = v]
    /\ UNCHANGED <<chatMessages, sendBtn, reloadBtn, statsDiv, inputFocused,
                   requests, now, issued, ops, enables, returnedEarly,
                   text>>

\* A call of sendQuestion by one of its listeners, the DOM being d.  The
\* clock is read once, by Date.now(): since the last reading the millisecond
\* is still the same or a later one (only the equality of readings matters).
CallSendQuestion(d) ==
    IF submits(d)
    THEN /\ issued <= MaxOps
         /\ now' \in {now, now + 1}
         /\ SetDom(sendQuestion(d, now', issued + 1))
         /\ issued' = issued + 1
         /\ requests' = requests \cup {Request(issued + 1, "ask", now', d)}
         /\ ops' = Append(ops, Op("ask"))
         /\ returnedEarly' = FALSE
         /\ UNCHANGED text
    ELSE /\ SetDom(d)
         /\ returnedEarly' = TRUE
         /\ UNCHANGED <<requests, now, issued, ops, text>>

\* sendBtn.addEventListener('click', sendQuestion): a disabled button
\* dispatches no click; the click takes the focus from the input.
ClickSend ==
    /\ ~sendBtn.disabled
    /\ CallSendQuestion([Dom EXCEPT !.inputFocused = FALSE])

\* questionInput.addEventListener('keypress', ...) with e.key === 'Enter':
\* only the focused, enabled input receives key events.
PressEnter ==
    /\ ~questionInput.disabled
    /\ inputFocused
    /\ CallSendQuestion(Dom)

\* reloadBtn.addEventListener('click', reloadDocuments): a disabled button
\* dispatches no click; the click takes the focus from the input.
ClickReload ==
    /\ ~reloadBtn.disabled
    /\ issued <= MaxOps
    /\ SetDom(reloadDocuments([Dom EXCEPT !.inputFocused = FALSE], issued + 1))
    /\ issued' = issued + 1
    /\ requests' = requests \cup {Request(issued + 1, "reload", 0, Dom)}
    /\ ops' = Append(ops, Op("reload"))
    /\ UNCHANGED <<now, returnedEarly, text>>

outcomeOf(t, data) ==
    IF t.threw THEN "threw" ELSE IF data.success THEN "success" ELSE "appfail"

\* The promise chain of request r settles, leaving the DOM d.
Settle(r, d, outcome, data) ==
    /\ SetDom(d)
    /\ requests' = requests \ {r}
    /\ ops' = [ops EXCEPT ![r.id].outcome = outcome,
                          ![r.id].count = data.sections_count,
                          ![r.id].enables =
                              IF r.kind = "ask"
                              THEN d.enables.question - enables.question
                              ELSE d.enables.reload - enables.reload]
    /\ UNCHANGED <<now, issued, returnedEarly, text>>

\* Faulty variant of AskResponse: .then(onData, onError) in place of
\* .then(onData).catch(onError), so that an exception of the then handler
\* reaches no handler.
AskResponse_NoCatchAfterThen(r, data) ==
    /\ r.kind = "ask"
    /\ LET t == askThen(Dom, data, r.loadingMsgId, r.id)
       IN  Settle(r, t.d, outcomeOf(t, data), data)

\* .then(response => response.json()) gave `data`: the then handler runs,
\* and the catch handler right after it when it threw.
AskResponse(r, data) ==
    /\ r.kind = "ask"
    /\ LET t == askThen(Dom, data, r.loadingMsgId, r.id)
           d == IF t.threw THEN askCatch(t.d, r.loadingMsgId, r.id) ELSE t.d
       IN  Settle(r, d, outcomeOf(t, data), data)

\* fetch rejected, or response.json() rejected: the catch handler runs.
AskFailure(r) ==
    /\ r.kind = "ask"
    /\ Settle(r, askCatch(Dom, r.loadingMsgId, r.id), "transport", NoData)

ReloadResponse(r, data) ==
    /\ r.kind = "reload"
    /\ LET t == reloadThen(Dom, data, r.id)
           d == IF t.threw THEN reloadCatch(t.d, r.id) ELSE t.d
       IN  Settle(r, d, outcomeOf(t, data), data)

ReloadFailure(r) ==
    /\ r.kind = "reload"
    /\ Settle(r, reloadCatch(Dom, r.id), "transport", NoData)

StatsResponse(r, data) ==
    /\ r.kind = "stats"
    /\ LET t == statsThen(Dom, data)
           d == IF t.threw THEN statsCatch(t.d) ELSE t.d
       IN  Settle(r, d, outcomeOf(t, data), data)

StatsFailure(r) ==
    /\ r.kind = "stats"
    /\ Settle(r, statsCatch(Dom), "transport", NoData)

Next ==
    \/ FocusInput
    \/ \E v \in Inputs : TypeInput(v)
    \/ ClickSend
    \/ PressEnter
    \/ ClickReload
    \/ \E r \in requests : \E data \in AskPayloads : AskResponse(r, data)
    \/ \E r \in requests : AskFailure(r)
    \/ \E r \in requests : \E data \in ReloadPayloads : ReloadResponse(r, data)
    \/ \E r \in requests : ReloadFailure(r)
    \/ \E r \in requests : \E data \in StatsPayloads : StatsResponse(r, data)
    \/ \E r \in requests : StatsFailure(r)

Spec == Init /\ [][Next]_vars

\* The steps that settle a question, a reload, the stats fetch.
AskSettles ==
    \E r \in requests :
        \/ \E data \in AskPayloads : AskResponse(r, data)
        \/ AskFailure(r)

ReloadSettles ==
    \E r \in requests :
        \/ \E data \in ReloadPayloads : ReloadResponse(r, data)
        \/ ReloadFailure(r)

StatsSettles ==
    \E r \in requests :
        \/ \E data \in StatsPayloads : StatsResponse(r, data)
        \/ StatsFailure(r)

\* The behaviours with at most MaxLiveOps questions and reloads in which
\* every fetch issued settles: the server answers or the browser gives up,
\* and the event loop then runs the handlers.
LiveNext ==
    \/ FocusInput
    \/ \E v \in Inputs : TypeInput(v)
    \/ ClickSend /\ issued' <= MaxLiveOps + 1
    \/ PressEnter /\ issued' <= MaxLiveOps + 1
    \/ ClickReload /\ issued' <= MaxLiveOps + 1
    \/ AskSettles
    \/ ReloadSettles
    \/ StatsSettles

FairSpec ==
    /\ Init /\ [][LiveNext]_vars
    /\ WF_vars(AskSettles)
    /\ WF_vars(ReloadSettles)
    /\ WF_vars(StatsSettles)

-----------------------------------------------------------------------------
\* addMessage alone: the page renders one text, of any type, in an empty log.

Tokens == {"a", " ", "\n", "<br>"}

Texts == UNION {[1..n -> Tokens] : n \in 0..MaxTextLen}

RenderInit ==
    /\ chatMessages = <<>>
    /\ questionInput = [value |-> <<>>, disabled |-> FALSE]
    /\ sendBtn = [disabled |-> FALSE]
    /\ reloadBtn = [disabled |-> FALSE, textContent |-> ReloadLabel]
    /\ statsDiv = [textContent |-> <<>>]
    /\ inputFocused = FALSE
    /\ now = 1
    /\ issued = 1
    /\ requests = {Request(1, "stats", 0, [statsDiv |-> [textContent |-> <<>>]])}
    /\ enables = [question |-> 0, reload |-> 0]
    /\ ops = <<Op("stats")>>
    /\ returnedEarly = FALSE
    /\ text \in Texts

\* addMessage(type, content)
Render(type) ==
    /\ chatMessages = <<>>
    /\ SetDom(addMessage(Dom, type, text, 0, 0))
    /\ UNCHANGED <<requests, now, issued, ops, returnedEarly, text>>

RenderNext == \E type \in {"user", "assistant", "system"} : Render(type)

RenderSpec == RenderInit /\ [][RenderNext]_vars

-----------------------------------------------------------------------------
\* Requests in flight

InFlight(kind) == {r \in requests : r.kind = kind}

QuestionControlsEnabled == ~questionInput.disabled /\ ~sendBtn.disabled

Ids(kind) == {id \in 1..issued : ops[id].kind = kind}

Settled(kind) == {id \in Ids(kind) : ops[id].outcome # "pending"}

\* The entries of the log added on behalf of request id, in log order.
Entries(id) == SelectSeq(chatMessages, LAMBDA m : m.op = id)

IsBlank(s) == \A i \in 1..Len(s) : s[i] \in Whitespace

-----------------------------------------------------------------------------
\* C1: at most one question request is in flight; while one is, the input
\* and the send control are disabled (so neither listener can call
\* sendQuestion), and the two controls are always enabled or disabled
\* together.
C1_OneQuestionInFlight ==
    /\ Cardinality(InFlight("ask")) <= 1
    /\ InFlight("ask") # {} => questionInput.disabled /\ sendBtn.disabled
    /\ questionInput.disabled = sendBtn.disabled

\* A second question is in flight after a first one was answered.
C1_Witness ==
    /\ issued = 3
    /\ ops[2].kind = "ask" /\ ops[2].outcome = "success"
    /\ ops[3].kind = "ask" /\ InFlight("ask") # {}

\* C2: a submitted question has exactly its user entry and its placeholder
\* in the log while its request is in flight, and exactly its user entry
\* followed by one terminal assistant or system entry, without the
\* placeholder, once the request has completed: two entries net.
C2_TwoEntriesPerQuestion ==
    \A id \in Ids("ask") :
        LET es == Entries(id) IN
        /\ Len(es) = 2
        /\ es[1].kind = "user" /\ es[1].id = 0
        /\ IF ops[id].outcome = "pending"
           THEN es[2].html = LoadingText /\ es[2].id # 0
           ELSE /\ es[2].kind \in {"assistant", "system"}
                /\ es[2].html # LoadingText /\ es[2].id = 0

\* Two questions have completed, one answered and one failed in transport.
C2_Witness ==
    /\ issued = 3
    /\ ops[2].kind = "ask" /\ ops[2].outcome = "success"
    /\ ops[3].kind = "ask" /\ ops[3].outcome = "transport"

\* C3: between a submission and the handling of its response the input and
\* the send control are disabled; whatever the outcome (answer, application
\* error, transport failure, handler that throws), the step that handles the
\* response executes the re-enabling statements exactly once and leaves both
\* controls enabled and the focus in the input; no other step executes them.
C3_State ==
    /\ \A id \in Ids("ask") :
           IF ops[id].outcome = "pending"
           THEN questionInput.disabled /\ sendBtn.disabled /\ ops[id].enables = 0
           ELSE ops[id].enables = 1
    /\ enables.question = Cardinality(Settled("ask"))

C3_Step ==
    /\ AskSettles =>
           /\ QuestionControlsEnabled' /\ inputFocused'
           /\ enables'.question = enables.question + 1
    /\ enables'.question # enables.question => AskSettles

C3_ReenabledExactlyOnce == []C3_State /\ [][C3_Step]_vars

\* Two questions have completed, one with an application error and one
\* with an answer whose rendering threw.
C3_Witness ==
    /\ issued = 3
    /\ ops[2].kind = "ask" /\ ops[2].outcome = "appfail"
    /\ ops[3].kind = "ask" /\ ops[3].outcome = "threw"
    /\ QuestionControlsEnabled

\* C4: a call of sendQuestion with an empty or whitespace-only input adds
\* nothing to the log, issues no request and leaves the input value, the
\* input, the send control, the reload control and the stats display as
\* they were.
C4_BlankInputNoOp ==
    [][(IsBlank(questionInput.value) /\ (ClickSend \/ PressEnter)) =>
           UNCHANGED <<chatMessages, requests, issued, ops, questionInput,
                       sendBtn, reloadBtn, statsDiv>>]_vars

\* sendQuestion was called on a whitespace-only input, with entries already
\* in the log.
C4_Witness ==
    /\ returnedEarly
    /\ questionInput.value = <<" ">>
    /\ Len(chatMessages) > 0

\* C5: a reload request is in flight exactly while the reload control is
\* disabled, so at most one is; the control reads 'Chargement en cours...'
\* while disabled and 'Recharger la documentation' while enabled; the
\* handlers of every completed reload restored it exactly once.
C5_ReloadControl ==
    /\ Cardinality(InFlight("reload")) <= 1
    /\ reloadBtn.disabled <=> InFlight("reload") # {}
    /\ reloadBtn.textContent = IF reloadBtn.disabled THEN ReloadBusyLabel ELSE ReloadLabel
    /\ \A id \in Ids("reload") :
           ops[id].enables = IF ops[id].outcome = "pending" THEN 0 ELSE 1
    /\ enables.reload = Cardinality(Settled("reload"))

\* A second reload is in flight after a first one ended in a transport failure.
C5_Witness ==
    /\ issued = 3
    /\ ops[2].kind = "reload" /\ ops[2].outcome = "transport"
    /\ ops[3].kind = "reload" /\ ops[3].outcome = "pending"

\* C6: when a reload is answered with success:false and no sections_count,
\* and the stats display still shows the count it showed when the reload
\* was triggered, it shows that same count after the response is handled.
C6_FailedReloadKeepsCount ==
    [][\A r \in InFlight("reload") :
           ( /\ r \notin requests'
             /\ ops'[r.id].outcome = "appfail"
             /\ ~ops'[r.id].count.present
             /\ r.statsBefore \in {statsLine(c) : c \in Counts}
             /\ statsDiv.textContent = r.statsBefore )
           => statsDiv'.textContent = r.statsBefore]_vars

\* C7: a reload that fails in transport (fetch or response.json() rejects)
\* has added to the log exactly the start message and the connection-error
\* system message; neither the click nor the failure handler writes the
\* stats display; the failure handler appends its message at the end of the
\* log and leaves the reload control enabled with its original label.
C7_State ==
    \A id \in Ids("reload") :
        ops[id].outcome = "transport" =>
            Entries(id) =
                << [kind |-> "system", html |-> ReloadStartText, id |-> 0, op |-> id],
                   [kind |-> "system", html |-> ReloadConnText, id |-> 0, op |-> id] >>

C7_Step ==
    /\ ClickReload => statsDiv' = statsDiv
    /\ \A r \in requests :
           ReloadFailure(r) =>
               /\ statsDiv' = statsDiv
               /\ reloadBtn' = [disabled |-> FALSE, textContent |-> ReloadLabel]
               /\ chatMessages' =
                      Append(chatMessages,
                             [kind |-> "system", html |-> ReloadConnText,
                              id |-> 0, op |-> r.id])

C7_ReloadTransportFailure == []C7_State /\ [][C7_Step]_vars

\* The stats fetch showed 2 sections and a reload then failed in transport:
\* the display still shows 2 sections and the reload control is restored.
C7_Witness ==
    /\ ops[1].outcome = "success" /\ ops[1].count = Count(2)
    /\ issued >= 2 /\ ops[2].kind = "reload" /\ ops[2].outcome = "transport"
    /\ statsDiv.textContent = statsLine(Count(2))
    /\ reloadBtn = [disabled |-> FALSE, textContent |-> ReloadLabel]

Max(S) == CHOOSE x \in S : \A y \in S : y <= x

\* C9: when every stats and reload request issued has been answered with
\* success, the stats display shows the count answered to the one issued
\* last.
C9_LastIssuedWins ==
    LET writers == Ids("stats") \cup Ids("reload") IN
    (\A id \in writers : ops[id].outcome = "success")
        => statsDiv.textContent = statsLine(ops[Max(writers)].count)

\* C10: if every request issued settles, a question in flight is followed by
\* a state where the input and the send control are enabled, and a reload in
\* flight by one where the reload control is enabled; and only the step that
\* settles a question (a reload) turns its controls from disabled to enabled.
C10_Step ==
    /\ (questionInput.disabled /\ ~questionInput'.disabled) => AskSettles
    /\ (sendBtn.disabled /\ ~sendBtn'.disabled) => AskSettles
    /\ (reloadBtn.disabled /\ ~reloadBtn'.disabled) => ReloadSettles

C10_ReturnsInteractive ==
    /\ (InFlight("ask") # {}) ~> QuestionControlsEnabled
    /\ (InFlight("reload") # {}) ~> ~reloadBtn.disabled
    /\ [][C10_Step]_vars

\* A question answered with success:false has settled and its controls are
\* enabled again.
C10_Witness ==
    /\ issued = 2 /\ ops[2].kind = "ask" /\ ops[2].outcome = "appfail"
    /\ QuestionControlsEnabled

IsPrefix(s, t) == Len(s) <= Len(t) /\ SubSeq(t, 1, Len(s)) = s

\* The placeholders of the questions that the step settles.
IsSettledPlaceholder(m) ==
    \E r \in InFlight("ask") :
        r \notin requests' /\ m.op = r.id /\ m.id = r.loadingMsgId /\ m.html = LoadingText

\* C11: every step leaves the log as it was, in the same order, but for the
\* placeholder of the question the step settles, and adds its new entries
\* at the end; user, answer and system entries are never removed.
C11_Step ==
    LET kept == SelectSeq(chatMessages, LAMBDA m : ~IsSettledPlaceholder(m)) IN
    /\ IsPrefix(kept, chatMessages')
    /\ Len(kept) >= Len(chatMessages) - 1

C11_AppendOnly == [][C11_Step]_vars

\* A question was settled after a reload had added its start message behind
\* the placeholder: the placeholder was removed from the middle of the log.
C11_Witness ==
    /\ issued = 3
    /\ ops[2].kind = "ask" /\ ops[2].outcome # "pending"
    /\ Len(chatMessages) >= 3
    /\ chatMessages[1].op = 2 /\ chatMessages[2].op = 3 /\ chatMessages[3].op = 2

\* The entry that a step appends last.
LastAdded == chatMessages'[Len(chatMessages')]

\* C12: the step that settles a question appends the entry its outcome
\* determines: for a response with success true (whose answer is a string,
\* as /api/ask promises) an assistant entry carrying the answer, its
\* newlines rendered as line breaks; for a response with success false the
\* system entry "Erreur: " followed by the error text, or by "Probleme
\* inconnu" when there is none; for a transport failure the system entry
\* "Erreur de connexion. Veuillez reessayer.".
C12_SuccessStep(r, data) ==
    (AskResponse(r, data) /\ ~data.isNull /\ data.success /\ data.answer.isStr)
        => /\ LastAdded.kind = "assistant"
           /\ LastAdded.op = r.id
           /\ LastAdded.html =
                  [i \in 1..Len(data.answer.s) |->
                      IF data.answer.s[i] = "\n" THEN "<br>" ELSE data.answer.s[i]]

C12_FailureStep(r, data) ==
    (AskResponse(r, data) /\ ~data.isNull /\ ~data.success)
        => /\ LastAdded.kind = "system"
           /\ LastAdded.op = r.id
           /\ LastAdded.html = <<"Erreur: ">> \o
                  (IF data.error.isStr /\ data.error.s # <<>>
                   THEN data.error.s ELSE <<"Probleme inconnu">>)

C12_TransportStep(r) ==
    AskFailure(r)
        => /\ LastAdded.kind = "system"
           /\ LastAdded.op = r.id
           /\ LastAdded.html = <<"Erreur de connexion. Veuillez reessayer.">>

C13_State == Ids("stats") = {1}

C13_ResponseStep(r, data) ==
    (StatsResponse(r, data) /\ ~data.isNull)
        => statsDiv'.textContent =
               IF data.success
               THEN <<ToString(data.sections_count.n),
                      " sections de documentation disponibles">>
               ELSE <<"Erreur lors du chargement des statistiques">>

C13_FailureStep(r) ==
    StatsFailure(r) => statsDiv'.textContent = <<"Erreur de connexion">>

C13_Step ==
    /\ \A r \in InFlight("stats") :
         /\ \A data \in StatsPayloads : C13_ResponseStep(r, data)
         /\ C13_FailureStep(r)
    /\ StatsSettles
         => UNCHANGED <<chatMessages, questionInput, sendBtn, reloadBtn,
                        inputFocused>>

C13_StatsFlow == []C13_State /\ [][C13_Step]_vars

\* The stats request was answered with success:false while a question was
\* in flight and a reload had ended.
C13_Witness ==
    /\ ops[1].outcome = "appfail"
    /\ statsDiv.textContent = StatsFailText
    /\ InFlight("ask") # {}
    /\ Settled("reload") # {}

\* The segments of s between its newlines, and segments joined by sep.
RECURSIVE Segments(_)
Segments(s) ==
    IF \A i \in 1..Len(s) : s[i] # "\n" THEN <<s>>
    ELSE LET i == CHOOSE j \in 1..Len(s) :
                      s[j] = "\n" /\ \A k \in 1..(j - 1) : s[k] # "\n"
         IN  <<SubSeq(s, 1, i - 1)>> \o Segments(SubSeq(s, i + 1, Len(s)))

RECURSIVE Joined(_, _)
Joined(segs, sep) ==
    IF Len(segs) = 1 THEN segs[1]
    ELSE segs[1] \o <<sep>> \o Joined(Tail(segs), sep)

Occurrences(s, tok) == Cardinality({i \in 1..Len(s) : s[i] = tok})

\* C14: the rendering of a text is its newline-separated segments, in their
\* order and unchanged, joined by line breaks: a text with k newlines has
\* k + 1 segments, its rendering has no newline and k line breaks more than
\* the text holds already, and the length is the same.
C14_RenderedSegments ==
    \A i \in 1..Len(chatMessages) :
        LET html == chatMessages[i].html
            k == Occurrences(text, "\n")
        IN  /\ html = Joined(Segments(text), "<br>")
            /\ Len(Segments(text)) = k + 1
            /\ Occurrences(html, "<br>") = Occurrences(text, "<br>") + k
            /\ Occurrences(html, "\n") = 0
            /\ Len(html) = Len(text)

\* A text with two newlines and three segments, the middle one not empty
\* and the others empty, has been rendered.
C14_Witness ==
    /\ text = <<"\n", "a", "\n">>
    /\ chatMessages # <<>>
    /\ chatMessages[1].html = <<"<br>", "a", "<br>">>

\* C15: the step that submits a question appends the user entry and then
\* the placeholder, leaves the input empty and disabled and the send control
\* disabled, and issues the request; so while a question request is in
\* flight the controls are disabled and the input is empty, and in the log
\* the user entry of a question comes before its placeholder and before its
\* terminal entry.
C15_State ==
    /\ InFlight("ask") # {}
         => /\ questionInput = [value |-> <<>>, disabled |-> TRUE]
            /\ sendBtn.disabled
    /\ \A r \in InFlight("ask") :
         \E i \in 1..(Len(chatMessages) - 1) :
             /\ chatMessages[i].op = r.id /\ chatMessages[i].kind = "user"
             /\ chatMessages[i + 1].op = r.id
             /\ chatMessages[i + 1].id = r.loadingMsgId
             /\ chatMessages[i + 1].html = <<"Recherche en cours...">>
    /\ \A i, j \in 1..Len(chatMessages) :
         ( /\ chatMessages[i].op = chatMessages[j].op
           /\ chatMessages[i].kind = "user"
           /\ chatMessages[j].kind # "user" ) => i < j

C15_Step ==
    (issued' = issued + 1 /\ ops'[issued'].kind = "ask")
        => LET question == trim(questionInput.value) IN
           /\ question # <<>>
           /\ chatMessages' = chatMessages \o
                  << [kind |-> "user", html |-> question, id |-> 0, op |-> issued'],
                     [kind |-> "assistant", html |-> <<"Recherche en cours...">>,
                      id |-> now', op |-> issued'] >>
           /\ questionInput' = [value |-> <<>>, disabled |-> TRUE]
           /\ sendBtn' = [disabled |-> TRUE]
           /\ requests' \ requests = {Request(issued', "ask", now', Dom)}

C15_SubmitOrder == []C15_State /\ [][C15_Step]_vars

\* A question is in flight and a reload triggered after it has added its
\* start message behind the placeholder.
C15_Witness ==
    /\ issued = 3
    /\ InFlight("ask") # {} /\ ops[2].kind = "ask"
    /\ Len(chatMessages) = 3
    /\ chatMessages[1].kind = "user"
    /\ chatMessages[2].html = LoadingText
    /\ chatMessages[3].op = 3

\* C16: a reload has added to the log its start message alone while its
\* request is in flight, and exactly two system entries once it has
\* completed: the start message and one terminal message, which is the
\* completion message with the count for a success response, the failure
\* message for a success:false response and the connection-error message
\* otherwise; the step that handles a success response with count n sets the
\* stats display to "{n} sections de documentation disponibles", with the n
\* of the completion message it appends.
C16_Terminal(id) ==
    CASE ops[id].outcome = "success" ->
             <<"Rechargement termine. ", ToString(ops[id].count.n),
               " sections disponibles.">>
      [] ops[id].outcome = "appfail" ->
             <<"Erreur lors du rechargement de la documentation.">>
      [] OTHER -> <<"Erreur de connexion lors du rechargement.">>

C16_State ==
    \A id \in Ids("reload") :
        LET es == Entries(id) IN
        /\ \A i \in 1..Len(es) : es[i].kind = "system" /\ es[i].id = 0
        /\ es[1].html = <<"Rechargement de la documentation en cours...">>
        /\ IF ops[id].outcome = "pending"
           THEN Len(es) = 1
           ELSE Len(es) = 2 /\ es[2].html = C16_Terminal(id)

C16_Step ==
    \A r \in InFlight("reload") : \A n \in {c.n : c \in Counts} :
        ReloadResponse(r, Payload(FALSE, TRUE, Undefined, Undefined, Count(n)))
            => /\ statsDiv'.textContent =
                      <<ToString(n), " sections de documentation disponibles">>
               /\ LastAdded.html =
                      <<"Rechargement termine. ", ToString(n), " sections disponibles.">>
               /\ Len(chatMessages') = Len(chatMessages) + 1

C16_TwoEntriesPerReload == []C16_State /\ [][C16_Step]_vars

\* Two reloads have completed: the first answered with success and count 2,
\* the second with success:false.
C16_Witness ==
    /\ issued = 3
    /\ ops[2].kind = "reload" /\ ops[2].outcome = "success" /\ ops[2].count = Count(2)
    /\ ops[3].kind = "reload" /\ ops[3].outcome = "appfail"
    /\ Len(chatMessages) = 4

\* C17: a question whose then handler threw (null body, success body
\* whose answer is not a string) or whose fetch or body parsing failed has
\* in the log its user entry and the connection-error system entry, no
\* placeholder, and its controls were re-enabled exactly once; a reload
\* that ended so has its start message and one connection-error message,
\* its control was restored exactly once, and the control is enabled with
\* its label when no reload is in flight.
C17_ExceptionsCaught ==
    /\ \A id \in Ids("ask") :
         ops[id].outcome \in {"threw", "transport"}
             => LET es == Entries(id) IN
                /\ Len(es) = 2
                /\ es[1].kind = "user"
                /\ es[2].kind = "system" /\ es[2].id = 0
                /\ es[2].html = <<"Erreur de connexion. Veuillez reessayer.">>
                /\ ops[id].enables = 1
                /\ InFlight("ask") = {} => QuestionControlsEnabled
    /\ \A id \in Ids("reload") :
         ops[id].outcome \in {"threw", "transport"}
             => LET es == Entries(id) IN
                /\ Len(es) = 2
                /\ es[2].kind = "system"
                /\ es[2].html = <<"Erreur de connexion lors du rechargement.">>
                /\ ops[id].enables = 1
                /\ InFlight("reload") = {}
                     => reloadBtn = [disabled |-> FALSE,
                                     textContent |-> "Recharger la documentation"]

\* The then handler of a question and the then handler of a reload both
\* threw.
C17_Witness ==
    /\ issued = 3
    /\ \E a, b \in {2, 3} :
         /\ ops[a].kind = "ask" /\ ops[a].outcome = "threw"
         /\ ops[b].kind = "reload" /\ ops[b].outcome = "threw"

\* C18: on the log of every reachable state and for every id a placeholder
\* can have, removeMessage(id) leaves the log without the entry keyed id,
\* which is one entry at most, and with every other entry in its place and
\* order; it changes nothing else, nothing at all when no entry has the
\* key, and a second call with the same id changes nothing.
C18_RemoveByKey ==
    \A id \in 1..(now + 1) :
        LET once == removeMessage(Dom, id)
            twice == removeMessage(once, id)
            keyed == {i \in 1..Len(chatMessages) : chatMessages[i].id = id}
        IN  /\ once = [Dom EXCEPT !.chatMessages =
                          SelectSeq(chatMessages, LAMBDA m : m.id # id)]
            /\ Len(once.chatMessages) = Len(chatMessages) - Cardinality(keyed)
            /\ Cardinality(keyed) <= 1
            /\ keyed = {} => once = Dom
            /\ twice = once

\* The then handler of a question threw after removing the placeholder from
\* between the user entry and the start message of a reload, and the catch
\* handler called removeMessage again.
C18_Witness ==
    /\ issued = 3
    /\ ops[2].kind = "ask" /\ ops[2].outcome = "threw"
    /\ Len(chatMessages) = 3
    /\ chatMessages[2].op = 3 /\ chatMessages[3].op = 2

\* The positions of the placeholders and of the entries that have a key.
Placeholders ==
    {i \in 1..Len(chatMessages) : chatMessages[i].html = <<"Recherche en cours...">>}

Keyed == {i \in 1..Len(chatMessages) : chatMessages[i].id # 0}

\* C19: the log holds a placeholder exactly when a question request is in
\* flight, and never more than one; the entries with a key are the
\* placeholders and no two of them have the same key; the placeholder in the
\* log is the one of the question in flight, with the id its handlers hold,
\* an id read from the clock, and no placeholder of a completed question is
\* left.
C19_PlaceholderIffInFlight ==
    /\ (Placeholders # {}) <=> (InFlight("ask") # {})
    /\ Cardinality(Placeholders) <= 1
    /\ Keyed = Placeholders
    /\ \A i, j \in Keyed : chatMessages[i].id = chatMessages[j].id => i = j
    /\ \A r \in InFlight("ask") :
         /\ r.loadingMsgId \in 1..now
         /\ \A i \in Placeholders :
              chatMessages[i].id = r.loadingMsgId /\ chatMessages[i].op = r.id
    /\ \A id \in Settled("ask") :
         \A i \in Placeholders : chatMessages[i].op # id

\* A second question is in flight whose placeholder has the id that the
\* placeholder of the first, completed question had: the clock read the same
\* millisecond twice.
C19_Witness ==
    /\ issued = 3 /\ now = 1
    /\ ops[2].kind = "ask" /\ ops[2].outcome # "pending"
    /\ \E r \in InFlight("ask") : r.id = 3 /\ r.loadingMsgId = 1
    /\ Cardinality(Placeholders) = 1

\* The entries of the log that belong to requests of the given kind, and
\* the others, in log order.
Of(msgs, kind) == SelectSeq(msgs, LAMBDA m : ops'[m.op].kind = kind)

NotOf(msgs, kind) == SelectSeq(msgs, LAMBDA m : ops'[m.op].kind # kind)

\* The step issues or settles a request of the given kind.
StepOf(kind) ==
    \/ \E r \in requests' \ requests : r.kind = kind
    \/ \E r \in requests \ requests' : r.kind = kind

\* C20: a step of a reload (trigger, response, failure) leaves the input and
\* the send control as they are, removes nothing from the log and appends
\* only system entries of that reload; a step of a question (submission,
\* response, failure) leaves the reload control and the stats display as
\* they are and leaves the entries of the reloads as they are, in their
\* order.
C20_ReloadStep ==
    StepOf("reload")
        => /\ questionInput' = questionInput
           /\ sendBtn' = sendBtn
           /\ IsPrefix(chatMessages, chatMessages')
           /\ Len(chatMessages') = Len(chatMessages) + 1
           /\ ops'[LastAdded.op].kind = "reload"
           /\ LastAdded.kind = "system"
           /\ Of(chatMessages', "ask") = Of(chatMessages, "ask")

C20_QuestionStep ==
    StepOf("ask")
        => /\ reloadBtn' = reloadBtn
           /\ statsDiv' = statsDiv
           /\ NotOf(chatMessages', "ask") = NotOf(chatMessages, "ask")

C20_FlowsDoNotInterfere == [][C20_ReloadStep /\ C20_QuestionStep]_vars

\* A reload has failed in transport and its control is restored while a
\* question is in flight, whose controls are still disabled and whose
\* placeholder is still in the log.
C20_Witness ==
    /\ InFlight("ask") # {}
    /\ questionInput.disabled /\ sendBtn.disabled
    /\ Placeholders # {}
    /\ \E id \in Settled("reload") : ops[id].outcome = "transport"
    /\ ~reloadBtn.disabled

====
